---- MODULE Spec2Model ----
(***************************************************************************)
(* The six server actions of meditation-script-maker (createMeditation-    *)
(* Script, updateMeditationScript, listMeditationScripts, getMeditation-   *)
(* ScriptWithSections, upsertMeditationScriptSection, deleteMeditation-    *)
(* ScriptSection) over the two tables MeditationScripts and                *)
(* MeditationScriptSections.                                               *)
(*                                                                         *)
(* Encoding.  A table is the sequence of its rows in store order.  An      *)
(* optional input field, and a nullable column, is None (undefined / NULL) *)
(* or Some(v).  Text is a TLA+ string, "" being the empty string.  An id   *)
(* is a natural number: n >= 1 stands for the n-th string drawn from       *)
(* crypto.randomUUID(), 0 for the empty string (the only id a caller can   *)
(* send that JavaScript treats as falsy).  A date is the reading of the    *)
(* clock `now`.                                                            *)
(***************************************************************************)
EXTENDS Integers, Sequences, FiniteSets, TLC

VARIABLES
  scripts,   \* the rows of MeditationScripts, in store order
  sections,  \* the rows of MeditationScriptSections, in store order
  uuids,     \* how many ids crypto.randomUUID() has handed out
  now,       \* the clock that new Date() reads
  last,      \* the last call made and its response
  calls      \* the calls in flight, where they interleave (SpecConcurrent)

vars == <<scripts, sections, uuids, now, last, calls>>

\* ---------------------------------------------------------------- bounds

\* The clock stops here; every call reads the clock and takes one tick.
MaxTime == 4

\* Calls made after the setup calls of InitFields.
MaxFieldCalls == 1

\* Calls in flight at once in SpecConcurrent.
MaxConcurrent == 2

\* ------------------------------------------------------------- constants

DefaultPage == 1
MinPageSize == 1
MaxPageSize == 100
DefaultPageSize == 20

\* ---------------------------------------------------------------- values

None == <<>>
Some(v) == <<v>>

Users == {"u1", "u2"}
\* context.locals.user is undefined
NoUser == "anonymous"

\* JavaScript truthiness of a string
Truthy(s) == s # ""

Min(a, b) == IF a <= b THEN a ELSE b

\* ---------------------------------------------------------------- tables

\* The optional inputs of createMeditationScript / updateMeditationScript
\* other than title.
ScriptOptionals ==
  {"description", "meditationType", "focusArea", "difficulty", "language",
   "targetDurationMinutes", "fullScript", "notes", "isFavorite"}

SectionOptionals == {"sectionType", "title", "suggestedDurationMinutes"}

\* The store: both tables and the number of UUIDs drawn so far.
Store == [scripts |-> scripts, sections |-> sections, uuids |-> uuids]

\* A where-clause is the set of rows that satisfy it.
Rows(table) == {table[i] : i \in 1..Len(table)}

IdsOf(table) == {table[i].id : i \in 1..Len(table)}

\* db.update(T).set(updates).where(...): every matching row gets the columns
\* of updates overwritten, every other column and row keeps its value.
SetColumns(row, updates) ==
  [c \in DOMAIN row |-> IF c \in DOMAIN updates THEN updates[c] ELSE row[c]]

DbUpdate(table, updates, matching) ==
  [i \in 1..Len(table) |->
     IF table[i] \in matching THEN SetColumns(table[i], updates) ELSE table[i]]

\* A delete statement that removes nothing.
DbDeleteNone(table, matching) == table

\* db.delete(T).where(...)
DbDelete(table, matching) == SelectSeq(table, LAMBDA r : r \notin matching)

\* db.select().from(T).where(...): the matching rows in store order
DbSelect(table, matching) == SelectSeq(table, LAMBDA r : r \in matching)

\* -------------------------------------------------------------- outcomes

\* What a call does: the response (kind, data), the store it leaves and the
\* number of store statements it ran.
Outcome(kind, data, st, stmts) ==
  [kind |-> kind, data |-> data, scripts |-> st.scripts,
   sections |-> st.sections, uuids |-> st.uuids, stmts |-> stmts]

\* A thrown ActionError: nothing was written.
Throw(code, message, st, stmts) == Outcome(code, message, st, stmts)

\* The input schema rejected the payload: the handler is never entered.
BadRequest(st) == Throw("BAD_REQUEST", "invalid input", st, 0)

Unauthorized(st) ==
  Throw("UNAUTHORIZED", "You must be signed in to perform this action.", st, 0)

ScriptNotFound(st, stmts) ==
  Throw("NOT_FOUND", "Meditation script not found.", st, stmts)

SectionNotFound(st, stmts) ==
  Throw("NOT_FOUND", "Section not found.", st, stmts)

\* requireUser: throws unless context.locals.user is set
requireUser(user) == user # NoUser

\* getOwnedScript with the userId conjunct of the where-clause left out.
getOwnedScriptAnyOwner(table, scriptId, userId) ==
  DbSelect(table, {r \in Rows(table) : r.id = scriptId})

\* getOwnedScript: the rows with this id AND this owner; the first, if any.
getOwnedScript(table, scriptId, userId) ==
  DbSelect(table, {r \in Rows(table) : r.id = scriptId /\ r.userId = userId})

\* ------------------------------------------------- createMeditationScript

\* z.object({title: z.string().min(1), ..., targetDurationMinutes:
\* z.number().int().positive().optional(), ...})
CreateInputValid(input) ==
  /\ Truthy(input.title)
  /\ input.targetDurationMinutes # None => input.targetDurationMinutes[1] > 0

\* The row of db.insert(MeditationScripts).values({...})
NewScriptRow(scriptId, userId, input, t) ==
  [id |-> scriptId,
   userId |-> userId,
   title |-> input.title,
   description |-> input.description,
   meditationType |-> input.meditationType,
   focusArea |-> input.focusArea,
   difficulty |-> input.difficulty,
   language |-> input.language,
   targetDurationMinutes |-> input.targetDurationMinutes,
   fullScript |-> input.fullScript,
   notes |-> input.notes,
   isFavorite |-> IF input.isFavorite # None THEN input.isFavorite[1] ELSE FALSE,
   createdAt |-> t,
   updatedAt |-> t]

createMeditationScript(st, user, input, t) ==
  IF ~CreateInputValid(input) THEN BadRequest(st)
  ELSE IF ~requireUser(user) THEN Unauthorized(st)
  ELSE
    LET scriptId == st.uuids + 1
        after == [st EXCEPT !.scripts = Append(@, NewScriptRow(scriptId, user, input, t)),
                            !.uuids = scriptId]
    IN  Outcome("ok", [id |-> scriptId], after, 1)

\* ------------------------------------------------- updateMeditationScript

\* The schema and its refine(): some key other than id has a value.
UpdateInputValid(input) ==
  /\ input.title # None => Truthy(input.title[1])
  /\ input.targetDurationMinutes # None => input.targetDurationMinutes[1] > 0
  /\ \E k \in DOMAIN input : k # "id" /\ input[k] # None

\* One `if (input.f !== undefined) updates.f = input.f` line.
SetIfDefined(input, f, v) == IF input[f] # None THEN f :> v ELSE <<>>

\* ScriptUpdates without the refresh of updatedAt.
ScriptUpdatesStale(input, t) ==
  SetIfDefined(input, "title", input.title[1])
  @@ SetIfDefined(input, "description", input.description)
  @@ SetIfDefined(input, "meditationType", input.meditationType)
  @@ SetIfDefined(input, "focusArea", input.focusArea)
  @@ SetIfDefined(input, "difficulty", input.difficulty)
  @@ SetIfDefined(input, "language", input.language)
  @@ SetIfDefined(input, "targetDurationMinutes", input.targetDurationMinutes)
  @@ SetIfDefined(input, "fullScript", input.fullScript)
  @@ SetIfDefined(input, "notes", input.notes)
  @@ SetIfDefined(input, "isFavorite", input.isFavorite[1])

\* ScriptUpdates as a full replace: a nullable column that was not provided
\* is overwritten with NULL.
ScriptUpdatesFullReplace(input, t) ==
  SetIfDefined(input, "title", input.title[1])
  @@ ("description" :> input.description)
  @@ ("meditationType" :> input.meditationType)
  @@ ("focusArea" :> input.focusArea)
  @@ ("difficulty" :> input.difficulty)
  @@ ("language" :> input.language)
  @@ ("targetDurationMinutes" :> input.targetDurationMinutes)
  @@ ("fullScript" :> input.fullScript)
  @@ ("notes" :> input.notes)
  @@ SetIfDefined(input, "isFavorite", input.isFavorite[1])
  @@ ("updatedAt" :> t)

\* The `updates` object handed to .set(): the provided fields and updatedAt.
ScriptUpdates(input, t) ==
  SetIfDefined(input, "title", input.title[1])
  @@ SetIfDefined(input, "description", input.description)
  @@ SetIfDefined(input, "meditationType", input.meditationType)
  @@ SetIfDefined(input, "focusArea", input.focusArea)
  @@ SetIfDefined(input, "difficulty", input.difficulty)
  @@ SetIfDefined(input, "language", input.language)
  @@ SetIfDefined(input, "targetDurationMinutes", input.targetDurationMinutes)
  @@ SetIfDefined(input, "fullScript", input.fullScript)
  @@ SetIfDefined(input, "notes", input.notes)
  @@ SetIfDefined(input, "isFavorite", input.isFavorite[1])
  @@ ("updatedAt" :> t)

updateMeditationScript(st, user, input, t) ==
  IF ~UpdateInputValid(input) THEN BadRequest(st)
  ELSE IF ~requireUser(user) THEN Unauthorized(st)
  ELSE IF getOwnedScript(st.scripts, input.id, user) = <<>> THEN ScriptNotFound(st, 1)
  ELSE
    LET after == [st EXCEPT !.scripts =
                    DbUpdate(@, ScriptUpdates(input, t),
                             {r \in Rows(@) : r.id = input.id /\ r.userId = user})]
    IN  Outcome("ok", [id |-> input.id], after, 2)

\* -------------------------------------------------- listMeditationScripts

\* page: z.number().int().positive().default(1)
\* pageSize: z.number().int().min(1).max(100).default(20)
ListInputValid(input) ==
  /\ input.page # None => input.page[1] > 0
  /\ input.pageSize # None =>
       input.pageSize[1] >= MinPageSize /\ input.pageSize[1] <= MaxPageSize

PageOf(input) == IF input.page # None THEN input.page[1] ELSE DefaultPage

PageSizeOf(input) ==
  IF input.pageSize # None THEN input.pageSize[1] ELSE DefaultPageSize

\* `condition`: the owner, and each filter the two `if`s add.  A NULL column
\* equals no value.
ListCondition(user, input, r) ==
  /\ r.userId = user
  /\ (input.focusArea # None /\ Truthy(input.focusArea[1]))
       => r.focusArea = Some(input.focusArea[1])
  /\ input.isFavorite # None => r.isFavorite = input.isFavorite[1]

\* Array.prototype.slice(start, end) for 0 <= start <= end
Slice(seq, start, end) ==
  IF start >= Len(seq) THEN <<>> ELSE SubSeq(seq, start + 1, Min(end, Len(seq)))

listMeditationScripts(st, user, input, t) ==
  IF ~ListInputValid(input) THEN BadRequest(st)
  ELSE IF ~requireUser(user) THEN Unauthorized(st)
  ELSE
    LET rows == DbSelect(st.scripts,
                         {r \in Rows(st.scripts) : ListCondition(user, input, r)})
        start == (PageOf(input) - 1) * PageSizeOf(input)
        items == Slice(rows, start, start + PageSizeOf(input))
    IN  Outcome("ok", [items |-> items, total |-> Len(rows)], st, 1)

\* ---------------------------------------- getMeditationScriptWithSections

\* Array.prototype.sort((a, b) => a.orderIndex - b.orderIndex): stable.
RECURSIVE InsertByOrder(_, _)
InsertByOrder(row, sorted) ==
  IF sorted = <<>> THEN <<row>>
  ELSE IF row.orderIndex <= Head(sorted).orderIndex THEN <<row>> \o sorted
  ELSE <<Head(sorted)>> \o InsertByOrder(row, Tail(sorted))

\* Inserting from the last row to the first keeps equal keys in fetch order.
RECURSIVE SortByOrderIndex(_)
SortByOrderIndex(rows) ==
  IF rows = <<>> THEN <<>>
  ELSE InsertByOrder(Head(rows), SortByOrderIndex(Tail(rows)))

getMeditationScriptWithSections(st, user, input, t) ==
  IF ~requireUser(user) THEN Unauthorized(st)
  ELSE
    LET owned == getOwnedScript(st.scripts, input.id, user) IN
    IF owned = <<>> THEN ScriptNotFound(st, 1)
    ELSE
      LET script == Head(owned)
          rows == DbSelect(st.sections,
                           {r \in Rows(st.sections) : r.scriptId = script.id})
      IN  Outcome("ok", [script |-> script, sections |-> SortByOrderIndex(rows)],
                  st, 2)

\* ------------------------------------------ upsertMeditationScriptSection

\* orderIndex: z.number().int().positive(), body: z.string().min(1),
\* suggestedDurationMinutes: z.number().int().positive().optional()
UpsertInputValid(input) ==
  /\ input.orderIndex > 0
  /\ Truthy(input.body)
  /\ input.suggestedDurationMinutes # None => input.suggestedDurationMinutes[1] > 0

\* `if (input.id)`: an id was sent and is not the empty string.
HasSectionId(input) == input.id # None /\ input.id[1] # 0

\* SectionUpdates without the three `!== undefined` guards.
SectionUpdatesOverwriteAll(input) ==
  ("orderIndex" :> input.orderIndex)
  @@ ("body" :> input.body)
  @@ ("sectionType" :> input.sectionType)
  @@ ("title" :> input.title)
  @@ ("suggestedDurationMinutes" :> input.suggestedDurationMinutes)

\* The `updates` object of the update branch.
SectionUpdates(input) ==
  ("orderIndex" :> input.orderIndex)
  @@ ("body" :> input.body)
  @@ SetIfDefined(input, "sectionType", input.sectionType)
  @@ SetIfDefined(input, "title", input.title)
  @@ SetIfDefined(input, "suggestedDurationMinutes", input.suggestedDurationMinutes)

\* The row of db.insert(MeditationScriptSections).values({...})
NewSectionRow(sectionId, scriptId, input, t) ==
  [id |-> sectionId,
   scriptId |-> scriptId,
   orderIndex |-> input.orderIndex,
   sectionType |-> input.sectionType,
   title |-> input.title,
   body |-> input.body,
   suggestedDurationMinutes |-> input.suggestedDurationMinutes,
   createdAt |-> t]

\* The scriptId check left out.
SectionOfScriptUnchecked(existingSection, script) == TRUE

\* The scriptId check between the section lookup and the update.
SectionOfScript(existingSection, script) == existingSection.scriptId = script.id

\* The update branch with the scriptId check made after the update ran.
UpdateExistingSectionLateCheck(st, script, input) ==
  LET found == DbSelect(st.sections,
                        {r \in Rows(st.sections) : r.id = input.id[1]})
      after == [st EXCEPT !.sections =
                  DbUpdate(@, SectionUpdates(input),
                           {r \in Rows(@) : r.id = input.id[1]})]
  IN
  IF found = <<>> THEN SectionNotFound(st, 2)
  ELSE IF ~SectionOfScript(Head(found), script) THEN
    Throw("FORBIDDEN",
          "You cannot modify sections for another user's script.", after, 3)
  ELSE Outcome("ok", [sectionId |-> input.id[1]], after, 3)

\* The `if (input.id) { ... }` branch: look the section up by id alone, check
\* it hangs under the resolved script, update it.
UpdateExistingSection(st, script, input) ==
  LET found == DbSelect(st.sections,
                        {r \in Rows(st.sections) : r.id = input.id[1]})
  IN
  IF found = <<>> THEN SectionNotFound(st, 2)
  ELSE IF ~SectionOfScript(Head(found), script) THEN
    Throw("FORBIDDEN",
          "You cannot modify sections for another user's script.", st, 2)
  ELSE
    LET after == [st EXCEPT !.sections =
                    DbUpdate(@, SectionUpdates(input),
                             {r \in Rows(@) : r.id = input.id[1]})]
    IN  Outcome("ok", [sectionId |-> input.id[1]], after, 3)

\* The insert after the branch.
InsertNewSection(st, script, input, t) ==
  LET sectionId == st.uuids + 1
      after == [st EXCEPT !.sections =
                            Append(@, NewSectionRow(sectionId, script.id, input, t)),
                          !.uuids = sectionId]
  IN  Outcome("ok", [sectionId |-> sectionId], after, 2)

upsertMeditationScriptSection(st, user, input, t) ==
  IF ~UpsertInputValid(input) THEN BadRequest(st)
  ELSE IF ~requireUser(user) THEN Unauthorized(st)
  ELSE
    LET owned == getOwnedScript(st.scripts, input.scriptId, user) IN
    IF owned = <<>> THEN ScriptNotFound(st, 1)
    ELSE IF HasSectionId(input) THEN UpdateExistingSection(st, Head(owned), input)
    ELSE InsertNewSection(st, Head(owned), input, t)

\* ------------------------------------------ deleteMeditationScriptSection

deleteMeditationScriptSection(st, user, input, t) ==
  IF ~requireUser(user) THEN Unauthorized(st)
  ELSE
    LET found == DbSelect(st.sections,
                          {r \in Rows(st.sections) : r.id = input.id})
    IN
    IF found = <<>> THEN SectionNotFound(st, 1)
    ELSE IF getOwnedScript(st.scripts, Head(found).scriptId, user) = <<>>
      THEN ScriptNotFound(st, 2)
    ELSE
      LET after == [st EXCEPT !.sections =
                      DbDelete(@, {r \in Rows(@) : r.id = input.id})]
      IN  Outcome("ok", [id |-> input.id], after, 3)

\* ---------------------------------------------------------------- inputs

NoScriptFields == [f \in ScriptOptionals |-> None]

NoSectionFields == [f \in SectionOptionals |-> None]

CreateInput(title, given) == ("title" :> title) @@ given @@ NoScriptFields

UpdateInput(id, given) ==
  ("id" :> id) @@ given @@ ("title" :> None) @@ NoScriptFields

ListInput(page, pageSize, focusArea, isFavorite) ==
  [page |-> page, pageSize |-> pageSize, focusArea |-> focusArea,
   isFavorite |-> isFavorite]

UpsertInput(id, scriptId, orderIndex, body, given) ==
  [id |-> id, scriptId |-> scriptId, orderIndex |-> orderIndex, body |-> body]
  @@ given @@ NoSectionFields

\* The ids a caller may send: every id drawn so far (rows of either table,
\* deleted ones included) and one that was never drawn.
KnownIds == 1..(uuids + 1)

Callers == Users \cup {NoUser}

CreateInputs ==
  {CreateInput("Calm", <<>>), CreateInput("", <<>>)}

UpdateInputs ==
  {UpdateInput(id, given) :
     id \in KnownIds, given \in {<<>>, "title" :> Some("Dawn")}}

ListInputs ==
  {ListInput(page, pageSize, None, None) :
     page \in {None, Some(2)}, pageSize \in {Some(1)}}
  \cup {ListInput(Some(0), None, None, None),
        ListInput(None, Some(MaxPageSize + 1), None, None)}

IdInputs == {[id |-> id] : id \in KnownIds}

\* A section is inserted at orderIndex 1 and moved to 2 by an update.
UpsertInputs ==
  {UpsertInput(id, scriptId, 1, "Breathe in.", <<>>) :
     id \in {None, Some(0)}, scriptId \in KnownIds}
  \cup {UpsertInput(Some(k), scriptId, 2, "Breathe out.", <<>>) :
          k \in KnownIds, scriptId \in KnownIds}
  \cup {UpsertInput(None, 1, 0, "Breathe in.", <<>>),
        UpsertInput(None, 1, 2, "", <<>>)}

\* --------------------------------------------------------------- actions

\* One call: the handler runs on the store as it is, at the clock's reading;
\* the response and what was asked are kept in `last`.  Every call takes one
\* tick of the clock.
Respond(op, user, input, outcome) ==
  /\ scripts' = outcome.scripts
  /\ sections' = outcome.sections
  /\ uuids' = outcome.uuids
  /\ now' = now + 1
  /\ calls' = calls
  /\ last' = [op |-> op, user |-> user, input |-> input, kind |-> outcome.kind,
              data |-> outcome.data, stmts |-> outcome.stmts]

Call(op, user, input, outcome) ==
  now < MaxTime /\ Respond(op, user, input, outcome)

\* An anonymous caller is turned away before the ids of the payload are
\* looked at: its calls are drawn with the ids fixed.
UpdateInputsOf(user) ==
  IF user = NoUser THEN {i \in UpdateInputs : i.id = 1} ELSE UpdateInputs

IdInputsOf(user) == IF user = NoUser THEN {[id |-> 1]} ELSE IdInputs

UpsertInputsOf(user) ==
  IF user = NoUser
    THEN {i \in UpsertInputs : i.id = None /\ i.scriptId = 1}
    ELSE UpsertInputs

CreateScript ==
  \E user \in Callers, input \in CreateInputs :
    Call("createScript", user, input,
         createMeditationScript(Store, user, input, now))

UpdateScript ==
  \E user \in Callers : \E input \in UpdateInputsOf(user) :
    Call("updateScript", user, input,
         updateMeditationScript(Store, user, input, now))

ListScripts ==
  \E user \in Callers, input \in ListInputs :
    Call("listScripts", user, input,
         listMeditationScripts(Store, user, input, now))

GetScriptWithSections ==
  \E user \in Callers : \E input \in IdInputsOf(user) :
    Call("getScriptWithSections", user, input,
         getMeditationScriptWithSections(Store, user, input, now))

UpsertSection ==
  \E user \in Callers : \E input \in UpsertInputsOf(user) :
    Call("upsertSection", user, input,
         upsertMeditationScriptSection(Store, user, input, now))

DeleteSection ==
  \E user \in Callers : \E input \in IdInputsOf(user) :
    Call("deleteSection", user, input,
         deleteMeditationScriptSection(Store, user, input, now))

\* Empty tables, no call made yet.
Init ==
  /\ scripts = <<>>
  /\ sections = <<>>
  /\ uuids = 0
  /\ now = 0
  /\ last = [op |-> "none", user |-> NoUser, input |-> <<>>, kind |-> "none",
             data |-> <<>>, stmts |-> 0]
  /\ calls = <<>>

Next ==
  \/ CreateScript
  \/ UpdateScript
  \/ ListScripts
  \/ GetScriptWithSections
  \/ UpsertSection
  \/ DeleteSection

Spec == Init /\ [][Next]_vars

\* ------------------------------------------------ the fields of the rows

\* A second specification for what the calls do to the columns: it starts
\* from the tables that four calls leave (u1 creates two scripts and adds a
\* section to the first, u2 creates a script), made through the handlers
\* themselves, and draws the payloads of the next calls from wider sets.

EmptyStore == [scripts |-> <<>>, sections |-> <<>>, uuids |-> 0]

StoreOf(outcome) ==
  [scripts |-> outcome.scripts, sections |-> outcome.sections,
   uuids |-> outcome.uuids]

AllScriptFields ==
  [description |-> Some("A slow start."), meditationType |-> Some("body-scan"),
   focusArea |-> Some("sleep"), difficulty |-> Some("beginner"),
   language |-> Some("en"), targetDurationMinutes |-> Some(10),
   fullScript |-> Some("Close your eyes."), notes |-> Some("evening"),
   isFavorite |-> Some(TRUE)]

AllSectionFields ==
  [sectionType |-> Some("intro"), title |-> Some("Arrive"),
   suggestedDurationMinutes |-> Some(2)]

FieldCreateInputs ==
  {CreateInput("Calm", <<>>),
   CreateInput("Sleep well", AllScriptFields),
   CreateInput("Pause", "focusArea" :> Some(""))}

\* The clock's readings at the setup calls.
SetupTimes == <<0, 1, 2, 3>>

SetupCalls(first, second, given) ==
  LET o1 == createMeditationScript(EmptyStore, "u1", first, SetupTimes[1])
      o2 == createMeditationScript(StoreOf(o1), "u1", second, SetupTimes[2])
      o3 == upsertMeditationScriptSection(
              StoreOf(o2), "u1", UpsertInput(None, 1, 2, "Breathe in.", given),
              SetupTimes[3])
  IN  createMeditationScript(
        StoreOf(o3), "u2", CreateInput("Sleep well", AllScriptFields),
        SetupTimes[4])

\* The clock's reading after the setup calls.
FieldsStart == Len(SetupTimes)

InitFields ==
  \E first \in {CreateInput("Calm", <<>>), CreateInput("Sleep well", AllScriptFields)},
     second \in {CreateInput("Pause", "focusArea" :> Some("")),
                 CreateInput("Sleep well", AllScriptFields)},
     given \in {<<>>, AllSectionFields} :
    LET o == SetupCalls(first, second, given) IN
    /\ scripts = o.scripts
    /\ sections = o.sections
    /\ uuids = o.uuids
    /\ now = FieldsStart
    /\ last = [op |-> "createScript", user |-> "u2",
               input |-> CreateInput("Sleep well", AllScriptFields),
               kind |-> o.kind, data |-> o.data, stmts |-> o.stmts]
    /\ calls = <<>>

FieldUpdateInputs ==
  {UpdateInput(id, given) :
     id \in IdsOf(scripts),
     given \in {<<>>,
                "title" :> Some("Dawn"),
                "title" :> Some(""),
                "focusArea" :> Some("stress"),
                "focusArea" :> Some(""),
                "isFavorite" :> Some(TRUE),
                "isFavorite" :> Some(FALSE),
                "targetDurationMinutes" :> Some(5),
                "targetDurationMinutes" :> Some(0),
                [description |-> Some(""), meditationType |-> Some("sleep"),
                 difficulty |-> Some("advanced")],
                [language |-> Some("ta"), fullScript |-> Some("Breathe."),
                 notes |-> Some("")],
                ("title" :> Some("Dawn")) @@ AllScriptFields}}

FieldListInputs ==
  {ListInput(paging[1], paging[2], focusArea, isFavorite) :
     paging \in {<<None, None>>, <<None, Some(1)>>, <<Some(2), Some(1)>>,
                 <<Some(3), Some(1)>>},
     focusArea \in {None, Some(""), Some("sleep")},
     isFavorite \in {None, Some(TRUE), Some(FALSE)}}

FieldUpsertInputs ==
  {UpsertInput(id, scriptId, orderIndex, "Breathe out.", given) :
     id \in {None} \cup {Some(k) : k \in IdsOf(sections)},
     scriptId \in {1, 2},
     orderIndex \in {3},
     given \in {<<>>,
                "sectionType" :> Some("closing"),
                [title |-> Some(""), suggestedDurationMinutes |-> Some(5)],
                AllSectionFields}}

FieldCall(op, user, input, outcome) ==
  now < FieldsStart + MaxFieldCalls /\ Respond(op, user, input, outcome)

FieldCreateScript ==
  \E user \in Users, input \in FieldCreateInputs :
    FieldCall("createScript", user, input,
              createMeditationScript(Store, user, input, now))

FieldUpdateScript ==
  \E user \in Users, input \in FieldUpdateInputs :
    FieldCall("updateScript", user, input,
              updateMeditationScript(Store, user, input, now))

FieldListScripts ==
  \E user \in Users, input \in FieldListInputs :
    FieldCall("listScripts", user, input,
              listMeditationScripts(Store, user, input, now))

FieldGetScriptWithSections ==
  \E user \in Users, id \in IdsOf(scripts) :
    FieldCall("getScriptWithSections", user, [id |-> id],
              getMeditationScriptWithSections(Store, user, [id |-> id], now))

FieldUpsertSection ==
  \E user \in Users, input \in FieldUpsertInputs :
    FieldCall("upsertSection", user, input,
              upsertMeditationScriptSection(Store, user, input, now))

FieldDeleteSection ==
  \E user \in Users, id \in IdsOf(sections) :
    FieldCall("deleteSection", user, [id |-> id],
              deleteMeditationScriptSection(Store, user, [id |-> id], now))

NextFields ==
  \/ FieldCreateScript
  \/ FieldUpdateScript
  \/ FieldListScripts
  \/ FieldGetScriptWithSections
  \/ FieldUpsertSection
  \/ FieldDeleteSection

SpecFields == InitFields /\ [][NextFields]_vars

\* ------------------------------------------------------ interleaved calls

\* A third specification for calls of one owner that overlap.  Each store
\* statement is one atomic step; a handler is the sequence of its statements
\* and other calls may run between them.  A call in flight keeps where it is
\* (pc), what its statements returned to it (script, section), its response
\* once done, and the number of rows its write statement changed.

ConcurrentOwner == "u1"

\* The tables when the calls start: u1 has made a script (id 1) and added a
\* section (id 2) to it.
ConcurrentSetup ==
  LET o1 == createMeditationScript(EmptyStore, ConcurrentOwner,
                                   CreateInput("Calm", <<>>), SetupTimes[1])
  IN  upsertMeditationScriptSection(
        StoreOf(o1), ConcurrentOwner,
        UpsertInput(None, 1, 1, "Breathe in.", <<>>), SetupTimes[2])

IdleCall ==
  [op |-> "none", input |-> <<>>, pc |-> "idle", script |-> None,
   section |-> None, kind |-> "none", data |-> <<>>, affected |-> 0]

ConcurrentUpsertInputs ==
  {UpsertInput(Some(id), 1, 2, "Breathe out.", <<>>) : id \in IdsOf(sections)}
  \cup {UpsertInput(None, 1, 1, "Breathe in.", <<>>)}

ConcurrentDeleteInputs == {[id |-> id] : id \in IdsOf(sections)}

InitConcurrent ==
  LET o == ConcurrentSetup IN
  /\ scripts = o.scripts
  /\ sections = o.sections
  /\ uuids = o.uuids
  /\ now = SetupTimes[3]
  /\ last = [op |-> "upsertSection", user |-> ConcurrentOwner,
             input |-> UpsertInput(None, 1, 1, "Breathe in.", <<>>),
             kind |-> o.kind, data |-> o.data, stmts |-> o.stmts]
  /\ calls = [p \in 1..MaxConcurrent |-> IdleCall]

\* The call moves on, or ends with a response.
Goto(p, pc) == calls' = [calls EXCEPT ![p].pc = pc]

Finish(p, kind, data, affected) ==
  calls' = [calls EXCEPT ![p].pc = "done", ![p].kind = kind, ![p].data = data,
                         ![p].affected = affected]

\* A request arrives: the schema accepts it and requireUser finds the owner.
BeginUpsert(p) ==
  /\ calls[p].pc = "idle"
  /\ \E input \in ConcurrentUpsertInputs :
       /\ UpsertInputValid(input)
       /\ requireUser(ConcurrentOwner)
       /\ calls' = [calls EXCEPT ![p].op = "upsertSection", ![p].input = input,
                                 ![p].pc = "resolveScript"]
  /\ UNCHANGED <<scripts, sections, uuids, now, last>>

BeginDelete(p) ==
  /\ calls[p].pc = "idle"
  /\ \E input \in ConcurrentDeleteInputs :
       /\ requireUser(ConcurrentOwner)
       /\ calls' = [calls EXCEPT ![p].op = "deleteSection", ![p].input = input,
                                 ![p].pc = "findSection"]
  /\ UNCHANGED <<scripts, sections, uuids, now, last>>

\* upsert: await getOwnedScript(input.scriptId, user.id)
UpsertResolveScript(p) ==
  /\ calls[p].op = "upsertSection"
  /\ calls[p].pc = "resolveScript"
  /\ LET owned == getOwnedScript(scripts, calls[p].input.scriptId, ConcurrentOwner) IN
     IF owned = <<>>
       THEN Finish(p, "NOT_FOUND", "Meditation script not found.", 0)
       ELSE calls' = [calls EXCEPT
                        ![p].script = Some(Head(owned)),
                        ![p].pc = IF HasSectionId(calls[p].input)
                                    THEN "findSection" ELSE "insert"]
  /\ UNCHANGED <<scripts, sections, uuids, now, last>>

\* upsert: await db.select() of the section by id, then the two checks
UpsertFindSection(p) ==
  /\ calls[p].op = "upsertSection"
  /\ calls[p].pc = "findSection"
  /\ LET found == DbSelect(sections,
                           {r \in Rows(sections) : r.id = calls[p].input.id[1]})
     IN
     IF found = <<>> THEN Finish(p, "NOT_FOUND", "Section not found.", 0)
     ELSE IF ~SectionOfScript(Head(found), calls[p].script[1]) THEN
       Finish(p, "FORBIDDEN",
              "You cannot modify sections for another user's script.", 0)
     ELSE calls' = [calls EXCEPT ![p].section = Some(Head(found)),
                                 ![p].pc = "update"]
  /\ UNCHANGED <<scripts, sections, uuids, now, last>>

\* upsert: await db.update(...).set(updates).where(id = input.id); return
UpsertUpdate(p) ==
  /\ calls[p].op = "upsertSection"
  /\ calls[p].pc = "update"
  /\ LET matching == {r \in Rows(sections) : r.id = calls[p].input.id[1]} IN
     /\ sections' = DbUpdate(sections, SectionUpdates(calls[p].input), matching)
     /\ Finish(p, "ok", [sectionId |-> calls[p].input.id[1]], Cardinality(matching))
  /\ UNCHANGED <<scripts, uuids, now, last>>

\* upsert: await db.insert(...).values({...}); return
UpsertInsert(p) ==
  /\ calls[p].op = "upsertSection"
  /\ calls[p].pc = "insert"
  /\ sections' = Append(sections,
                        NewSectionRow(uuids + 1, calls[p].script[1].id,
                                      calls[p].input, now))
  /\ uuids' = uuids + 1
  /\ Finish(p, "ok", [sectionId |-> uuids + 1], 1)
  /\ UNCHANGED <<scripts, now, last>>

\* delete: await db.select() of the section by id
DeleteFindSection(p) ==
  /\ calls[p].op = "deleteSection"
  /\ calls[p].pc = "findSection"
  /\ LET found == DbSelect(sections,
                           {r \in Rows(sections) : r.id = calls[p].input.id})
     IN
     IF found = <<>> THEN Finish(p, "NOT_FOUND", "Section not found.", 0)
     ELSE calls' = [calls EXCEPT ![p].section = Some(Head(found)),
                                 ![p].pc = "resolveOwner"]
  /\ UNCHANGED <<scripts, sections, uuids, now, last>>

\* delete: await getOwnedScript(section.scriptId, user.id)
DeleteResolveOwner(p) ==
  /\ calls[p].op = "deleteSection"
  /\ calls[p].pc = "resolveOwner"
  /\ IF getOwnedScript(scripts, calls[p].section[1].scriptId, ConcurrentOwner) = <<>>
       THEN Finish(p, "NOT_FOUND", "Meditation script not found.", 0)
       ELSE Goto(p, "delete")
  /\ UNCHANGED <<scripts, sections, uuids, now, last>>

\* delete: await db.delete(...).where(id = input.id); return
DeleteDelete(p) ==
  /\ calls[p].op = "deleteSection"
  /\ calls[p].pc = "delete"
  /\ LET matching == {r \in Rows(sections) : r.id = calls[p].input.id} IN
     /\ sections' = DbDelete(sections, matching)
     /\ Finish(p, "ok", [id |-> calls[p].input.id], Cardinality(matching))
  /\ UNCHANGED <<scripts, uuids, now, last>>

NextConcurrent ==
  \E p \in 1..MaxConcurrent :
    \/ BeginUpsert(p)
    \/ BeginDelete(p)
    \/ UpsertResolveScript(p)
    \/ UpsertFindSection(p)
    \/ UpsertUpdate(p)
    \/ UpsertInsert(p)
    \/ DeleteFindSection(p)
    \/ DeleteResolveOwner(p)
    \/ DeleteDelete(p)

SpecConcurrent == InitConcurrent /\ [][NextConcurrent]_vars

\* ---------------------------------------------------------------- claims

\* The input schema of each action.
InputValid(op, input) ==
  CASE op = "createScript" -> CreateInputValid(input)
    [] op = "updateScript" -> UpdateInputValid(input)
    [] op = "listScripts" -> ListInputValid(input)
    [] op = "upsertSection" -> UpsertInputValid(input)
    [] OTHER -> TRUE

\* `user` owns the script with this id.
Owns(user, scriptId) ==
  \E s \in Rows(scripts) : s.id = scriptId /\ s.userId = user

\* This id was drawn and no row carries it: a section that was deleted.
SectionGone(id) ==
  id \in 1..uuids /\ id \notin IdsOf(scripts) /\ id \notin IdsOf(sections)

C1Step ==
  LET c == last' IN
  /\ \A i \in 1..Len(scripts) :
       scripts[i].userId # c.user =>
         i <= Len(scripts') /\ scripts'[i] = scripts[i]
  /\ (c.op = "listScripts" /\ c.kind = "ok") =>
       \A i \in 1..Len(c.data.items) : c.data.items[i].userId = c.user
  /\ (c.op = "getScriptWithSections" /\ c.kind = "ok") =>
       c.data.script.userId = c.user
  /\ ( /\ c.op \in {"updateScript", "getScriptWithSections"}
       /\ c.user \in Users
       /\ InputValid(c.op, c.input)
       /\ ~Owns(c.user, c.input.id) ) =>
       c.kind = "NOT_FOUND" /\ c.data = "Meditation script not found."

\* C1: no call returns or modifies a script of another owner: a step leaves
\* every script row of a user other than the caller as it was, listScripts
\* returns only rows of the caller, getScriptWithSections returns a script of
\* the caller, and updateScript / getScriptWithSections on an id the caller
\* does not own answer NOT_FOUND with one message, whether the id is another
\* user's script or no script at all.
C1_OwnerIsolation == [][C1Step]_vars

\* u2 asked to update a script that exists and belongs to u1.
C1_Witness ==
  /\ last.op = "updateScript"
  /\ last.kind = "NOT_FOUND"
  /\ last.user \in Users
  /\ \E s \in Rows(scripts) : s.id = last.input.id /\ s.userId # last.user

\* The store the caller would see had no other user ever added a section:
\* only the sections under the caller's own scripts are kept.
WithoutForeignSections(st, user) ==
  [st EXCEPT !.sections =
     SelectSeq(@, LAMBDA r :
       \E s \in Rows(st.scripts) : s.id = r.scriptId /\ s.userId = user)]

\* What the caller learns from a call: success with its data, or the kind of
\* failure.
Learned(outcome) ==
  IF outcome.kind = "ok" THEN <<"ok", outcome.data>> ELSE <<outcome.kind>>

\* C2: for every caller and input, upsertSection, deleteSection and
\* getScriptWithSections answer the same in the store as it is and in the
\* store without the sections under other users' scripts.
C2_NoSectionLeak ==
  \A user \in Users :
    LET mine == WithoutForeignSections(Store, user) IN
    /\ \A input \in UpsertInputs :
         Learned(upsertMeditationScriptSection(Store, user, input, now))
           = Learned(upsertMeditationScriptSection(mine, user, input, now))
    /\ \A input \in IdInputs :
         /\ Learned(deleteMeditationScriptSection(Store, user, input, now))
              = Learned(deleteMeditationScriptSection(mine, user, input, now))
         /\ Learned(getMeditationScriptWithSections(Store, user, input, now))
              = Learned(getMeditationScriptWithSections(mine, user, input, now))

C3Step ==
  LET c == last' IN
  /\ c.kind \in {"ok", "UNAUTHORIZED", "BAD_REQUEST", "NOT_FOUND", "FORBIDDEN"}
  /\ c.kind # "ok" =>
       scripts' = scripts /\ sections' = sections /\ uuids' = uuids
  /\ c.user = NoUser =>
       /\ c.stmts = 0
       /\ c.kind = IF InputValid(c.op, c.input) THEN "UNAUTHORIZED" ELSE "BAD_REQUEST"
  /\ c.kind = "UNAUTHORIZED" => c.user = NoUser

C6Situation(c) ==
  /\ c.op = "upsertSection"
  /\ c.user \in Users
  /\ UpsertInputValid(c.input)
  /\ Owns(c.user, c.input.scriptId)
  /\ c.input.id # None
  /\ \E r \in Rows(sections) :
       r.id = c.input.id[1] /\ r.scriptId # c.input.scriptId

C6Step ==
  LET c == last' IN
  /\ c.kind = "FORBIDDEN" <=> C6Situation(c)
  /\ c.kind = "FORBIDDEN" => sections' = sections /\ scripts' = scripts

\* C6: a call answers FORBIDDEN exactly when it is upsertSection with a
\* scriptId the caller owns and the id of an existing section whose scriptId
\* is another script; the section is then left as it was.
C6_ForbiddenExactlyOnce == [][C6Step]_vars

\* FORBIDDEN for a section of another script of the same caller.
C6_Witness ==
  /\ last.kind = "FORBIDDEN"
  /\ \E r \in Rows(sections) :
       r.id = last.input.id[1] /\ Owns(last.user, r.scriptId)

C8Step ==
  LET c == last' IN
  /\ (c.op = "deleteSection" /\ c.kind = "ok") =>
       /\ \E r \in Rows(sections) : r.id = c.input.id /\ Owns(c.user, r.scriptId)
       /\ sections' = SelectSeq(sections, LAMBDA r : r.id # c.input.id)
       /\ scripts' = scripts
  /\ (c.op = "deleteSection" /\ c.user \in Users /\ c.input.id \notin IdsOf(sections)) =>
       c.kind = "NOT_FOUND"
  /\ ( /\ c.op = "deleteSection"
       /\ c.user \in Users
       /\ \E r \in Rows(sections) : r.id = c.input.id /\ ~Owns(c.user, r.scriptId) ) =>
       c.kind = "NOT_FOUND" /\ sections' = sections
  /\ \A id \in 1..uuids :
       SectionGone(id) => id \notin IdsOf(sections') /\ id \notin IdsOf(scripts')
  /\ (c.op = "getScriptWithSections" /\ c.kind = "ok") =>
       \A i \in 1..Len(c.data.sections) : c.data.sections[i] \in Rows(sections')

\* C8: a successful deleteSection is the owner's, removes exactly the row with
\* that id and leaves the scripts and the other sections as they were; an id
\* whose row is gone never comes back, so a later deleteSection of it answers
\* NOT_FOUND and getScriptWithSections returns only rows still in the table;
\* deleteSection by a caller who does not own the parent script answers
\* NOT_FOUND and removes nothing.
C8_DeleteIsFinal == [][C8Step]_vars

\* deleteSection of an id that an earlier deleteSection removed.
C8_Witness ==
  /\ last.op = "deleteSection"
  /\ last.kind = "NOT_FOUND"
  /\ last.user \in Users
  /\ SectionGone(last.input.id)
  /\ scripts # <<>>

C9Step ==
  LET c == last' IN
  /\ \A i \in 1..Len(scripts) :
       /\ i <= Len(scripts')
       /\ scripts'[i].id = scripts[i].id
       /\ scripts'[i].userId = scripts[i].userId
       /\ scripts'[i].createdAt = scripts[i].createdAt
       /\ scripts'[i].updatedAt >= scripts[i].updatedAt
  /\ \A i \in 1..Len(scripts') : scripts'[i].createdAt <= scripts'[i].updatedAt
  /\ (c.op = "createScript" /\ c.kind = "ok") =>
       /\ Len(scripts') = Len(scripts) + 1
       /\ scripts'[Len(scripts')].id = c.data.id
       /\ scripts'[Len(scripts')].createdAt = now
       /\ scripts'[Len(scripts')].updatedAt = now
  /\ (c.op = "updateScript" /\ c.kind = "ok") =>
       \A i \in 1..Len(scripts') :
         scripts'[i].id = c.input.id => scripts'[i].updatedAt = now

\* C9: createScript stores createdAt = updatedAt = the time of the call, a
\* successful updateScript sets updatedAt of its script to the time of the
\* call, and over every step each script keeps its id, userId and createdAt
\* while its updatedAt never decreases and is never below createdAt.
C9_Timestamps == [][C9Step]_vars

\* A script whose updatedAt was refreshed past its createdAt.
C9_Witness ==
  /\ last.op = "updateScript"
  /\ last.kind = "ok"
  /\ \E s \in Rows(scripts) : s.id = last.input.id /\ s.updatedAt > s.createdAt

\* The fields an updateScript payload provides.
Provided(input) == {f \in DOMAIN input \ {"id"} : input[f] # None}

\* The column value a provided field stands for: title and isFavorite are
\* columns that are never NULL, the others are nullable.
Supplied(input, f) ==
  IF f \in {"title", "isFavorite"} THEN input[f][1] ELSE input[f]

C4Step ==
  LET c == last' IN
  /\ (c.op = "updateScript" /\ c.kind = "ok") =>
       /\ Owns(c.user, c.input.id)
       /\ c.data.id = c.input.id
       /\ Len(scripts') = Len(scripts)
       /\ sections' = sections
       /\ uuids' = uuids
       /\ \A i \in 1..Len(scripts) :
            IF scripts[i].id # c.input.id THEN scripts'[i] = scripts[i]
            ELSE /\ DOMAIN scripts'[i] = DOMAIN scripts[i]
                 /\ \A col \in DOMAIN scripts[i] :
                      scripts'[i][col] =
                        IF col = "updatedAt" THEN now
                        ELSE IF col \in Provided(c.input) THEN Supplied(c.input, col)
                        ELSE scripts[i][col]
  /\ (c.op = "updateScript" /\ Provided(c.input) = {}) => c.kind = "BAD_REQUEST"

\* C4: a successful updateScript is the owner's, returns the id, and leaves
\* on the script with that id every provided field at the supplied value,
\* updatedAt at the time of the call and every other column as it was; every
\* other script and every section are as they were.  updateScript with no
\* field besides id answers BAD_REQUEST.
C4_UpdateFrame == [][C4Step]_vars

\* Only focusArea was provided, to a script whose other nullable columns hold
\* values, beside another script and a section.
C4_Witness ==
  /\ last.op = "updateScript"
  /\ last.kind = "ok"
  /\ Provided(last.input) = {"focusArea"}
  /\ \E s \in Rows(scripts) :
       /\ s.id = last.input.id
       /\ s.focusArea = Some("stress")
       /\ s.description = Some("A slow start.")
       /\ s.isFavorite
       /\ s.updatedAt > s.createdAt
  /\ Len(scripts) > 1
  /\ sections # <<>>

C5Step ==
  LET c == last' IN
  /\ (c.op = "upsertSection" /\ c.kind = "ok" /\ HasSectionId(c.input)) =>
       /\ c.data.sectionId = c.input.id[1]
       /\ Len(sections') = Len(sections)
       /\ uuids' = uuids
       /\ scripts' = scripts
       /\ \A i \in 1..Len(sections) :
            IF sections[i].id # c.input.id[1] THEN sections'[i] = sections[i]
            ELSE sections'[i] =
                   [sections[i] EXCEPT
                      !.orderIndex = c.input.orderIndex,
                      !.body = c.input.body,
                      !.sectionType =
                        IF c.input.sectionType # None THEN c.input.sectionType ELSE @,
                      !.title = IF c.input.title # None THEN c.input.title ELSE @,
                      !.suggestedDurationMinutes =
                        IF c.input.suggestedDurationMinutes # None
                          THEN c.input.suggestedDurationMinutes ELSE @]
  /\ ( /\ c.op = "upsertSection"
       /\ c.user \in Users
       /\ UpsertInputValid(c.input)
       /\ Owns(c.user, c.input.scriptId)
       /\ HasSectionId(c.input)
       /\ \E r \in Rows(sections) :
            r.id = c.input.id[1] /\ r.scriptId = c.input.scriptId ) =>
       c.kind = "ok"

C7Matching(c) ==
  SelectSeq(scripts, LAMBDA r :
    /\ r.userId = c.user
    /\ c.input.focusArea # None => r.focusArea = c.input.focusArea
    /\ c.input.isFavorite # None => r.isFavorite = c.input.isFavorite[1])

\* C7: a successful listScripts returns as total the number of the caller's
\* scripts that satisfy every supplied filter by equality, and as items the
\* elements of that list from offset (page-1)*pageSize up to but excluding
\* min(page*pageSize, total).
C7_ListPage ==
  (last.op = "listScripts" /\ last.kind = "ok") =>
    LET matching == C7Matching(last)
        total == Len(matching)
        start == (PageOf(last.input) - 1) * PageSizeOf(last.input)
        end == Min(PageOf(last.input) * PageSizeOf(last.input), total)
    IN  /\ last.data.total = total
        /\ last.data.items =
             [i \in 1..(IF end > start THEN end - start ELSE 0) |-> matching[start + i]]

\* A call in flight that has answered success.
Succeeded(p, op) ==
  calls[p].pc = "done" /\ calls[p].op = op /\ calls[p].kind = "ok"

\* C10: among overlapping calls of one owner, an upsertSection with an id
\* that answers success has written to a row that was there at its write, and
\* no two deleteSection calls answer success for one section id.
C10_SuccessIsBackedByAWrite ==
  \A p \in DOMAIN calls :
    /\ (Succeeded(p, "upsertSection") /\ HasSectionId(calls[p].input)) =>
         calls[p].affected = 1
    /\ Succeeded(p, "deleteSection") =>
         /\ calls[p].affected = 1
         /\ \A q \in DOMAIN calls \ {p} :
              Succeeded(q, "deleteSection") => calls[q].input.id # calls[p].input.id

====
